---- MODULE Spec2Model ----
(***************************************************************************)
(* Merkle Patricia Trie (hex radix): the node model of trie.go and the     *)
(* Insert / Delete / FindMerklePath algorithms of the trie package.        *)
(*                                                                         *)
(* The heap of nodes is the sequence `nodes`; a pointer is an index into   *)
(* it and 0 is the nil pointer.  mt.root is the pointer RootId.  Hex       *)
(* characters are their ASCII codes, a value object is a sequence of       *)
(* length one holding the value bytes, and nil is the empty sequence.      *)
(***************************************************************************)
EXTENDS Integers, Sequences, FiniteSets, TLC

VARIABLES nodes, stored, mode, res, path

vars == <<nodes, stored, mode, res, path>>

\* ------------------------------------------------------------------ bounds
MaxKeyLen == 2
MaxStored == 3
\* the digest calls of one Insert or Delete of which the injected digest may
\* fail one: the first to the MaxFailAt-th
MaxFailAt == 3

\* --------------------------------------------------------- input alphabets
\* key bytes 0x00, 0x1a and 0xa0; value bytes
KeyBytes == {0, 26, 160}
Values == {<<1>>}
TwoValues == {<<1>>, <<2>>}

RECURSIVE SeqsUpTo(_, _)
SeqsUpTo(S, n) ==
    IF n = 0 THEN {<<>>}
    ELSE LET shorter == SeqsUpTo(S, n - 1)
         IN  shorter \cup {Append(s, x) : s \in {t \in shorter : Len(t) = n - 1}, x \in S}

Keys == SeqsUpTo(KeyBytes, MaxKeyLen)

\* ------------------------------------------------------------- error codes
Nil == "nil"
ErrEmptyKey == "length of key must be positive"
ErrExists == "already exists"
ErrNotFound == "not found"
ErrDigest == "updateHash failed"
ErrBranch == "branch"
ErrPrefix == "no common prefix"
Panic == "panic"

\* ---------------------------------------------------------------- node model
ChildIndexCount == 16
RootId == 1
NilPtr == 0
NilValue == <<>>
EmptyHash == <<>>
NoChildren == [i \in 0 .. ChildIndexCount - 1 |-> NilPtr]

NewValueObject(value) == <<value>>

nodeExtension(key, next, value) ==
    [kind |-> "E", key |-> key, next |-> next, value |-> value,
     children |-> NoChildren, hash |-> EmptyHash]

nodeBranch(children) ==
    [kind |-> "B", key |-> <<>>, next |-> NilPtr, value |-> NilValue,
     children |-> children, hash |-> EmptyHash]

HasNext(n) == n.next # NilPtr
HasValueObject(n) == n.value # NilValue

\* hex.EncodeToString: two lowercase hex characters per byte
HexChar(d) == IF d < 10 THEN 48 + d ELSE 87 + d

RECURSIVE EncodeToString(_)
EncodeToString(bytes) ==
    IF bytes = <<>> THEN <<>>
    ELSE <<HexChar(Head(bytes) \div 16), HexChar(Head(bytes) % 16)>>
            \o EncodeToString(Tail(bytes))

InvalidIndex == -1

toChildIndex(ch) ==
    IF 48 <= ch /\ ch <= 57 THEN ch - 48
    ELSE IF 97 <= ch /\ ch <= 102 THEN ch - 97
    ELSE InvalidIndex

HasChildAt(n, c) == n.children[toChildIndex(c)] # NilPtr
ChildAt(n, c) == n.children[toChildIndex(c)]

Count(n) == Cardinality({i \in 0 .. ChildIndexCount - 1 : n.children[i] # NilPtr})

\* First that returns slot 0 whether or not it is occupied
FirstSlot(n) == n.children[0]

First(n) ==
    LET occupied == {i \in 0 .. ChildIndexCount - 1 : n.children[i] # NilPtr}
    IN  IF occupied = {} THEN NilPtr
        ELSE n.children[CHOOSE i \in occupied : \A j \in occupied : i <= j]

\* ------------------------------------------------- serialization and digest
\* gob framing of one Encode call: length, type id, zero delta, payload
EncodeString(s) == <<Len(s) + 3, 12, 0, Len(s)>> \o s
EncodeBytes(b) == <<Len(b) + 3, 10, 0, Len(b)>> \o b

TagE == <<69>>
TagB == <<66>>
TagC == <<67>>
TagNC == <<78, 67>>
TagV == <<86>>
TagNV == <<78, 86>>

SerializeExtension(h, n) ==
    EncodeString(TagE) \o EncodeString(n.key)
      \o (IF HasNext(n) THEN EncodeString(TagC) \o EncodeBytes(h[n.next].hash)
          ELSE EncodeBytes(TagNC))
      \o (IF HasValueObject(n) THEN EncodeString(TagV) \o EncodeBytes(n.value[1])
          ELSE EncodeString(TagNV))

RECURSIVE SerializeChildren(_, _, _)
SerializeChildren(h, n, i) ==
    IF i = ChildIndexCount THEN <<>>
    ELSE (IF n.children[i] # NilPtr
          THEN EncodeString(TagC) \o EncodeBytes(h[n.children[i]].hash)
          ELSE EncodeString(TagNC))
         \o SerializeChildren(h, n, i + 1)

SerializeBranch(h, n) == EncodeString(TagB) \o SerializeChildren(h, n, 0)

Serialize(h, id) ==
    IF h[id].kind = "E" THEN SerializeExtension(h, h[id]) ELSE SerializeBranch(h, h[id])

\* nodeBase.Hash panics on an empty hash; Serialize reads the hashes of the
\* nodes referenced by the node
Referenced(n) ==
    IF n.kind = "E" THEN {n.next} \ {NilPtr}
    ELSE {n.children[i] : i \in 0 .. ChildIndexCount - 1} \ {NilPtr}

\* the injected digest, taken as collision-free: an injective function with
\* a non-empty result
Digest(s) == <<Len(s)>> \o s

\* ------------------------------------------------------ the running call
\* m is the state of one call in progress: the heap, the number of digest
\* calls made so far, the digest call that fails (0: none), the error
\* returned so far, and the values returned by the last frame.
Machine(h, failAt) ==
    [nodes |-> h, calls |-> 0, failAt |-> failAt, err |-> Nil,
     ret |-> NilPtr, sd |-> FALSE, path |-> <<>>,
     frames |-> 0, shorter |-> TRUE]

\* a call of one of the recursive functions: one more frame
Frame(m) == [m EXCEPT !.frames = @ + 1]

\* the recursive call from an Extension frame into its next node, which is
\* passed keyTail; shorter records that every such call so far passed a
\* non-empty remainder shorter than the key of its caller
Descend(m, key, keyTail) ==
    [m EXCEPT !.frames = @ + 1,
              !.shorter = @ /\ 0 < Len(keyTail) /\ Len(keyTail) < Len(key)]

Fail(m, e) == [m EXCEPT !.err = e]

\* F applied to the value v, computed once
Let(v, F(_)) == CHOOSE r \in {F(x) : x \in {v}} : TRUE

\* `if err != nil { return err }`: the call that produced m has returned; an
\* error is passed up, otherwise F continues from m
Try(m, F(_)) == Let(m, LAMBDA x : IF x.err # Nil THEN x ELSE F(x))

UpdateHash(m, id) ==
    Let(m, LAMBDA x :
        IF \E r \in Referenced(x.nodes[id]) : x.nodes[r].hash = EmptyHash
        THEN Fail(x, Panic)
        ELSE IF x.calls + 1 = x.failAt
        THEN [x EXCEPT !.calls = @ + 1, !.err = ErrDigest]
        ELSE [x EXCEPT !.calls = @ + 1,
                       !.nodes[id].hash = Digest(Serialize(x.nodes, id))])

SetKey(m, id, key) ==
    IF Len(key) = 0 THEN Fail(m, Panic) ELSE [m EXCEPT !.nodes[id].key = key]

\* SetNext on a copy of the node (a value receiver): the assignment is lost
SetNextOnCopy(m, id, n) == m

SetNext(m, id, n) == [m EXCEPT !.nodes[id].next = n]

SetValueObject(m, id, value) == [m EXCEPT !.nodes[id].value = value]

NewNodeExtension(m, key, next, valueObject) ==
    Let(m, LAMBDA x :
        Try(UpdateHash([x EXCEPT !.nodes = Append(@, nodeExtension(key, next, valueObject))],
                       Len(x.nodes) + 1),
            LAMBDA y : [y EXCEPT !.ret = Len(x.nodes) + 1]))

NewNodeBranch == nodeBranch(NoChildren)

\* NewNodeBranchWithChildren that stores the child a in the slot of b too
NewNodeBranchWithChildrenTwice(m, a, b) ==
    Let(m, LAMBDA x :
        LET ka == x.nodes[a].key
            kb == x.nodes[b].key
            children == [[NoChildren EXCEPT ![toChildIndex(ka[1])] = a]
                                     EXCEPT ![toChildIndex(kb[1])] = a]
        IN  IF Len(ka) = 0 \/ Len(kb) = 0 THEN Fail(x, ErrBranch)
            ELSE IF ka[1] = kb[1] THEN Fail(x, ErrBranch)
            ELSE Try(UpdateHash([x EXCEPT !.nodes = Append(@, nodeBranch(children))],
                                Len(x.nodes) + 1),
                     LAMBDA y : [y EXCEPT !.ret = Len(x.nodes) + 1]))

NewNodeBranchWithChildren(m, a, b) ==
    Let(m, LAMBDA x :
        LET ka == x.nodes[a].key
            kb == x.nodes[b].key
            children == [[NoChildren EXCEPT ![toChildIndex(ka[1])] = a]
                                     EXCEPT ![toChildIndex(kb[1])] = b]
        IN  IF Len(ka) = 0 \/ Len(kb) = 0 THEN Fail(x, ErrBranch)
            ELSE IF ka[1] = kb[1] THEN Fail(x, ErrBranch)
            ELSE Try(UpdateHash([x EXCEPT !.nodes = Append(@, nodeBranch(children))],
                                Len(x.nodes) + 1),
                     LAMBDA y : [y EXCEPT !.ret = Len(x.nodes) + 1]))

BranchAppend(m, id, n) ==
    LET index == toChildIndex(m.nodes[n].key[1])
    IN  IF m.nodes[id].children[index] # NilPtr THEN Fail(m, ErrBranch)
        ELSE [m EXCEPT !.nodes[id].children[index] = n]

BranchDelete(m, id, c) ==
    LET index == toChildIndex(c)
    IN  IF m.nodes[id].children[index] = NilPtr THEN Fail(m, ErrBranch)
        ELSE [m EXCEPT !.nodes[id].children[index] = NilPtr]

\* ----------------------------------------------------------- commonPrefix
min(a, b) == IF a < b THEN a ELSE b

commonPrefix(a, b) ==
    IF Len(a) = 0 \/ Len(b) = 0 THEN [prefix |-> <<>>, err |-> ErrPrefix]
    ELSE IF a[1] # b[1] THEN [prefix |-> <<>>, err |-> ErrPrefix]
    ELSE LET minLen == min(Len(a), Len(b))
             diff == {i \in 2 .. minLen : a[i] # b[i]}
         IN  IF diff # {}
             THEN [prefix |-> SubSeq(a, 1, (CHOOSE i \in diff : \A j \in diff : i <= j) - 1),
                   err |-> Nil]
             ELSE [prefix |-> SubSeq(a, 1, minLen), err |-> Nil]

\* s[n:] of Go
\* the slice expression without its lower bound: the whole string
FromStart(s, n) == s

From(s, n) == SubSeq(s, n + 1, Len(s))

\* ------------------------------------------------------------------ Insert
RECURSIVE insertToExtension(_, _, _, _)
RECURSIVE insertToBranch(_, _, _, _)

insertToExtension(m, key, valueObject, node) ==
    LET n == m.nodes[node]
        cp == commonPrefix(n.key, key)
        prefix == cp.prefix
    IN
    IF key = n.key THEN
        IF HasValueObject(n) THEN Fail(m, ErrExists)
        ELSE UpdateHash(SetValueObject(m, node, valueObject), node)
    ELSE IF cp.err # Nil THEN Fail(m, Panic)
    ELSE IF prefix = n.key THEN
        \* 1. Extend
        LET keyTail == From(key, Len(prefix)) IN
        IF ~HasNext(n) THEN
            Try(NewNodeExtension(m, keyTail, NilPtr, valueObject), LAMBDA m1 :
                UpdateHash(SetNext(m1, node, m1.ret), node))
        ELSE IF m.nodes[n.next].kind = "E" THEN
            IF keyTail[1] = m.nodes[n.next].key[1] THEN
                Try(insertToExtension(Descend(m, key, keyTail), keyTail, valueObject, n.next), LAMBDA m1 :
                    UpdateHash(m1, node))
            ELSE
                Try(NewNodeExtension(m, keyTail, NilPtr, valueObject), LAMBDA m1 :
                Try(NewNodeBranchWithChildren(m1, n.next, m1.ret), LAMBDA m2 :
                    UpdateHash(SetNext(m2, node, m2.ret), node)))
        ELSE IF m.nodes[n.next].kind = "B" THEN
            Try(insertToBranch(Descend(m, key, keyTail), keyTail, valueObject, n.next), LAMBDA m1 :
                UpdateHash(m1, node))
        ELSE Fail(m, Panic)
    ELSE IF prefix = key THEN
        LET keyTail == From(n.key, Len(prefix)) IN
        Try(NewNodeExtension(m, keyTail, n.next, n.value), LAMBDA m1 :
        Try(SetKey(m1, node, prefix), LAMBDA m2 :
            UpdateHash(SetValueObject(SetNext(m2, node, m1.ret), node, valueObject), node)))
    ELSE
        \* 2. Divide (Ext + Branch + Ext * 2)
        LET nodeKeyTail == From(n.key, Len(prefix))
            newKeyTail == From(key, Len(prefix))
        IN
        Try(NewNodeExtension(m, nodeKeyTail, n.next, n.value), LAMBDA m1 :
        Try(NewNodeExtension(m1, newKeyTail, NilPtr, valueObject), LAMBDA m2 :
        Try(NewNodeBranchWithChildren(m2, m1.ret, m2.ret), LAMBDA m3 :
        Try(SetKey(m3, node, prefix), LAMBDA m4 :
            UpdateHash(SetValueObject(SetNext(m4, node, m3.ret), node, NilValue), node)))))

insertToBranch(m, key, valueObject, node) ==
    IF HasChildAt(m.nodes[node], key[1]) THEN
        Try(insertToExtension(Frame(m), key, valueObject, ChildAt(m.nodes[node], key[1])),
            LAMBDA m1 : UpdateHash(m1, node))
    ELSE
        Try(NewNodeExtension(m, key, NilPtr, valueObject), LAMBDA m1 :
        Try(BranchAppend(m1, node, m1.ret), LAMBDA m2 :
            UpdateHash(m2, node)))

\* Insert without the validation of the key: the index key[0] of the empty
\* hex key is out of range
InsertCallUnchecked(h, failAt, key, value) ==
    IF Len(key) = 0 THEN Fail(Machine(h, failAt), Panic)
    ELSE Try(insertToBranch(Frame(Machine(h, failAt)), EncodeToString(key),
                            NewValueObject(value), RootId),
             LAMBDA m1 : UpdateHash(m1, RootId))

\* MerklePatriciaTrie.Insert on the heap h, with digest call failAt failing
InsertCall(h, failAt, key, value) ==
    IF Len(key) = 0 THEN Fail(Machine(h, failAt), ErrEmptyKey)
    ELSE Try(insertToBranch(Frame(Machine(h, failAt)), EncodeToString(key),
                            NewValueObject(value), RootId),
             LAMBDA m1 : UpdateHash(m1, RootId))

\* ------------------------------------------------------------------ Delete
RECURSIVE deleteKeyInExtension(_, _, _)
RECURSIVE deleteKeyInBranch(_, _, _)

Return(m, shouldDelete) == [m EXCEPT !.sd = shouldDelete]

\* `if err != nil { return false, err }`
TryDelete(m, F(_)) == Let(m, LAMBDA x : IF x.err # Nil THEN Return(x, FALSE) ELSE F(x))

\* deleteKeyInExtension that links the last child of a collapsed Branch to
\* its parent Extension without merging the two when the parent holds no value
deleteKeyInExtensionNoMerge(m, key, node) ==
    LET n == m.nodes[node]
        cp == commonPrefix(n.key, key)
        prefix == cp.prefix
        keyTail == From(key, Len(prefix))
    IN
    IF key = n.key THEN
        IF ~HasValueObject(n) THEN Return(Fail(m, ErrNotFound), FALSE)
        ELSE IF ~HasNext(n) THEN Return(m, TRUE)
        ELSE IF m.nodes[n.next].kind = "E" THEN
            LET next == m.nodes[n.next] IN
            Try(SetKey(m, node, n.key \o next.key), LAMBDA m1 :
                Return(UpdateHash(SetNext(SetValueObject(m1, node, next.value),
                                          node, next.next), node), FALSE))
        ELSE IF m.nodes[n.next].kind = "B" THEN Return(UpdateHash(m, node), FALSE)
        ELSE Fail(m, Panic)
    ELSE IF cp.err # Nil THEN Fail(m, Panic)
    ELSE IF prefix = key THEN Return(Fail(m, ErrNotFound), FALSE)
    ELSE IF prefix # n.key THEN Return(Fail(m, ErrNotFound), FALSE)
    ELSE IF ~HasNext(n) THEN Return(Fail(m, ErrNotFound), FALSE)
    ELSE IF m.nodes[n.next].kind = "E" THEN
        IF keyTail[1] # m.nodes[n.next].key[1] THEN Return(Fail(m, ErrNotFound), FALSE)
        ELSE
            TryDelete(deleteKeyInExtension(Descend(m, key, keyTail), keyTail, n.next), LAMBDA m1 :
                IF ~m1.sd THEN Return(UpdateHash(m1, node), FALSE)
                ELSE IF HasValueObject(m1.nodes[node])
                THEN Return(UpdateHash(SetNext(m1, node, NilPtr), node), FALSE)
                ELSE Return(SetNext(m1, node, NilPtr), TRUE))
    ELSE IF m.nodes[n.next].kind = "B" THEN
        TryDelete(deleteKeyInBranch(Descend(m, key, keyTail), keyTail, n.next), LAMBDA m1 :
            LET newNext == First(m1.nodes[n.next])
            IN  IF ~m1.sd THEN Return(UpdateHash(m1, node), FALSE)
                ELSE Return(UpdateHash(SetNext(m1, node, newNext), node), FALSE))
    ELSE Fail(m, Panic)

deleteKeyInExtension(m, key, node) ==
    LET n == m.nodes[node]
        cp == commonPrefix(n.key, key)
        prefix == cp.prefix
        keyTail == From(key, Len(prefix))
    IN
    IF key = n.key THEN
        IF ~HasValueObject(n) THEN Return(Fail(m, ErrNotFound), FALSE)
        ELSE IF ~HasNext(n) THEN Return(m, TRUE)
        ELSE IF m.nodes[n.next].kind = "E" THEN
            LET next == m.nodes[n.next] IN
            Try(SetKey(m, node, n.key \o next.key), LAMBDA m1 :
                Return(UpdateHash(SetNext(SetValueObject(m1, node, next.value),
                                          node, next.next), node), FALSE))
        ELSE IF m.nodes[n.next].kind = "B" THEN Return(UpdateHash(m, node), FALSE)
        ELSE Fail(m, Panic)
    ELSE IF cp.err # Nil THEN Fail(m, Panic)
    ELSE IF prefix = key THEN Return(Fail(m, ErrNotFound), FALSE)
    ELSE IF prefix # n.key THEN Return(Fail(m, ErrNotFound), FALSE)
    ELSE IF ~HasNext(n) THEN Return(Fail(m, ErrNotFound), FALSE)
    ELSE IF m.nodes[n.next].kind = "E" THEN
        IF keyTail[1] # m.nodes[n.next].key[1] THEN Return(Fail(m, ErrNotFound), FALSE)
        ELSE
            TryDelete(deleteKeyInExtension(Descend(m, key, keyTail), keyTail, n.next), LAMBDA m1 :
                IF ~m1.sd THEN Return(UpdateHash(m1, node), FALSE)
                ELSE IF HasValueObject(m1.nodes[node])
                THEN Return(UpdateHash(SetNext(m1, node, NilPtr), node), FALSE)
                ELSE Return(SetNext(m1, node, NilPtr), TRUE))
    ELSE IF m.nodes[n.next].kind = "B" THEN
        TryDelete(deleteKeyInBranch(Descend(m, key, keyTail), keyTail, n.next), LAMBDA m1 :
            LET newNext == First(m1.nodes[n.next])
                c == m1.nodes[newNext]
            IN  IF ~m1.sd THEN Return(UpdateHash(m1, node), FALSE)
                ELSE IF HasValueObject(m1.nodes[node])
                THEN Return(UpdateHash(SetNext(m1, node, newNext), node), FALSE)
                ELSE IF newNext = NilPtr THEN Fail(m1, Panic)
                ELSE Try(SetKey(m1, node, m1.nodes[node].key \o c.key), LAMBDA m2 :
                         Return(UpdateHash(SetNext(SetValueObject(m2, node, c.value),
                                                   node, c.next), node), FALSE)))
    ELSE Fail(m, Panic)

deleteKeyInBranch(m, key, node) ==
    IF ~HasChildAt(m.nodes[node], key[1]) THEN Return(Fail(m, ErrNotFound), FALSE)
    ELSE
        TryDelete(deleteKeyInExtension(Frame(m), key, ChildAt(m.nodes[node], key[1])), LAMBDA m1 :
            IF ~m1.sd THEN Return(UpdateHash(m1, node), FALSE)
            ELSE TryDelete(BranchDelete(m1, node, key[1]), LAMBDA m2 :
                     IF Count(m2.nodes[node]) = 1 THEN Return(m2, TRUE)
                     ELSE Return(UpdateHash(m2, node), FALSE)))

\* Delete without the final refresh of the root hash
DeleteCallNoRootHash(h, failAt, key) ==
    IF Len(key) = 0 THEN Fail(Machine(h, failAt), ErrEmptyKey)
    ELSE deleteKeyInBranch(Frame(Machine(h, failAt)), EncodeToString(key), RootId)

\* MerklePatriciaTrie.Delete; shouldDelete is ignored at the root
DeleteCall(h, failAt, key) ==
    IF Len(key) = 0 THEN Fail(Machine(h, failAt), ErrEmptyKey)
    ELSE Try(deleteKeyInBranch(Frame(Machine(h, failAt)), EncodeToString(key), RootId),
             LAMBDA m1 : UpdateHash(m1, RootId))

\* ---------------------------------------------------------- FindMerklePath
\* A MerklePath is a sequence of MerkleSets, a MerkleSet a sequence of
\* HashBlobs; the nil HashBlob of an empty slot is the empty sequence.
RECURSIVE merklePathInExtension(_, _, _)
RECURSIVE merklePathInBranch(_, _, _)

Found(m, p) == [m EXCEPT !.path = p]

\* append(path, MerkleSet{hs}); Hash() panics on an empty hash
AppendSet(m, hs) ==
    IF \E i \in DOMAIN hs : hs[i] = EmptyHash THEN Fail(m, Panic)
    ELSE Found(m, Append(m.path, hs))

merklePathInExtension(m, key, node) ==
    LET n == m.nodes[node]
        cp == commonPrefix(n.key, key)
        prefix == cp.prefix
        keyTail == From(key, Len(prefix))
    IN
    IF key = n.key THEN
        IF ~HasValueObject(n) THEN Fail(m, ErrNotFound)
        ELSE AppendSet(Found(m, <<>>), <<n.hash>>)
    ELSE IF cp.err # Nil THEN Fail(m, Panic)
    ELSE IF prefix = key THEN Fail(m, ErrNotFound)
    ELSE IF prefix # n.key THEN Fail(m, ErrNotFound)
    ELSE IF ~HasNext(n) THEN Fail(m, ErrNotFound)
    ELSE IF m.nodes[n.next].kind = "E" THEN
        IF keyTail[1] # m.nodes[n.next].key[1] THEN Fail(m, ErrNotFound)
        ELSE Try(merklePathInExtension(Descend(m, key, keyTail), keyTail, n.next), LAMBDA m1 :
                 AppendSet(m1, <<n.hash>>))
    ELSE IF m.nodes[n.next].kind = "B" THEN
        Try(merklePathInBranch(Descend(m, key, keyTail), keyTail, n.next), LAMBDA m1 :
            AppendSet(m1, <<n.hash>>))
    ELSE Fail(m, Panic)

merklePathInBranch(m, key, node) ==
    LET n == m.nodes[node]
        hs == [i \in 1 .. ChildIndexCount |->
                 IF n.children[i - 1] # NilPtr THEN m.nodes[n.children[i - 1]].hash
                 ELSE EmptyHash]
    IN
    IF ~HasChildAt(n, key[1]) THEN Fail(m, ErrNotFound)
    ELSE Try(merklePathInExtension(Frame(m), key, ChildAt(n, key[1])), LAMBDA m1 :
             IF \E r \in Referenced(n) : m.nodes[r].hash = EmptyHash THEN Fail(m1, Panic)
             ELSE Found(m1, Append(m1.path, hs)))

FindCall(h, key) ==
    IF Len(key) = 0 THEN Fail(Machine(h, 0), ErrEmptyKey)
    ELSE Try(merklePathInBranch(Frame(Machine(h, 0)), EncodeToString(key), RootId),
             LAMBDA m1 : AppendSet(m1, <<h[RootId].hash>>))

RootHash(h) == h[RootId].hash

\* --------------------------------------------------------- the state machine
\* nodes   the heap; nodes[RootId] is mt.root
\* stored  the caller's record: the pairs inserted with success and not
\*         deleted with success since
\* mode    the caller's record of the calls made so far:
\*           "ins"   Inserts of pairwise distinct non-empty keys only
\*           "del"   such Inserts, then successful Deletes of stored keys
\*           "other" anything else
\* res     the error returned by the last call (Nil: success; Panic: the
\*         process halted), path the MerklePath it returned
NewMerklePatriciaTrie == UpdateHash(Machine(<<NewNodeBranch>>, 0), RootId).nodes

Init ==
    /\ nodes = NewMerklePatriciaTrie
    /\ stored = <<>>
    /\ mode = "ins"
    /\ res = Nil
    /\ path = <<>>

\* The Go runtime reclaims the nodes no longer reachable from mt.root, and a
\* pointer is observable only through the node it leads to: between calls the
\* heap holds the reachable nodes, named by their position in a preorder
\* walk from the root.
Successors(n) ==
    IF n.kind = "E" THEN (IF n.next = NilPtr THEN <<>> ELSE <<n.next>>)
    ELSE SelectSeq([i \in 1 .. ChildIndexCount |-> n.children[i - 1]],
                   LAMBDA c : c # NilPtr)

RECURSIVE Walk(_, _, _)
Walk(h, stack, seen) ==
    IF stack = <<>> THEN seen
    ELSE IF \E i \in 1 .. Len(seen) : seen[i] = Head(stack)
    THEN Walk(h, Tail(stack), seen)
    ELSE Walk(h, Successors(h[Head(stack)]) \o Tail(stack), Append(seen, Head(stack)))

Collect(h) ==
    Let(Walk(h, <<RootId>>, <<>>), LAMBDA live :
        LET name(p) == IF p = NilPtr THEN NilPtr
                       ELSE CHOOSE i \in 1 .. Len(live) : live[i] = p
        IN  [i \in 1 .. Len(live) |->
                [h[live[i]] EXCEPT !.next = name(@),
                                   !.children = [c \in 0 .. ChildIndexCount - 1 |-> name(@[c])]]])

Put(f, k, v) == [x \in DOMAIN f \cup {k} |-> IF x = k THEN v ELSE f[x]]
Drop(f, k) == [x \in DOMAIN f \ {k} |-> f[x]]

Insert(key, value, failAt) ==
    \E m \in {InsertCall(nodes, failAt, key, value)} :
    /\ res # Panic
    /\ Cardinality(DOMAIN stored) < MaxStored
    /\ nodes' = Collect(m.nodes)
    /\ res' = m.err
    /\ path' = <<>>
    /\ stored' = IF m.err = Nil THEN Put(stored, key, value) ELSE stored
    /\ mode' = IF mode = "ins" /\ key # <<>> /\ key \notin DOMAIN stored /\ failAt = 0
               THEN "ins" ELSE "other"

Delete(key, failAt) ==
    \E m \in {DeleteCall(nodes, failAt, key)} :
    /\ res # Panic
    /\ nodes' = Collect(m.nodes)
    /\ res' = m.err
    /\ path' = <<>>
    /\ stored' = IF m.err = Nil THEN Drop(stored, key) ELSE stored
    /\ mode' = IF mode \in {"ins", "del"} /\ key \in DOMAIN stored /\ m.err = Nil
               THEN "del" ELSE "other"

FindMerklePath(key) ==
    \E m \in {FindCall(nodes, key)} :
    /\ res # Panic
    /\ res' = m.err
    /\ path' = IF m.err = Nil THEN m.path ELSE <<>>
    /\ UNCHANGED <<nodes, stored, mode>>

Next ==
    \/ \E key \in Keys, value \in Values : Insert(key, value, 0)
    \/ \E key \in Keys : Delete(key, 0)
    \/ \E key \in Keys : FindMerklePath(key)

Spec == Init /\ [][Next]_vars

\* Inserts only, with two values to choose from
NextInsert == \E key \in Keys, value \in TwoValues : Insert(key, value, 0)

SpecInsert == Init /\ [][NextInsert]_vars

\* Inserts of distinct keys, then Deletes of stored keys, and at last a call
\* in which the injected digest may fail (failAt = 0: it does not)
NextDigest ==
    \/ \E key \in Keys, value \in Values, failAt \in 0 .. MaxFailAt :
          mode # "other" /\ Insert(key, value, failAt)
    \/ \E key \in Keys, failAt \in 0 .. MaxFailAt :
          mode # "other" /\ Delete(key, failAt)

SpecDigest == Init /\ [][NextDigest]_vars

\* ------------------------------------------------ vocabulary of the claims
Range(f) == {f[x] : x \in DOMAIN f}

\* the orderings of a set of keys
Orderings(S) ==
    {o \in [1 .. Cardinality(S) -> S] : \A i, j \in DOMAIN o : o[i] = o[j] => i = j}

\* a fresh trie into which the pairs of f are inserted in the order keys
RECURSIVE BuildFrom(_, _, _)
BuildFrom(h, keys, f) ==
    IF keys = <<>> THEN [nodes |-> h, err |-> Nil]
    ELSE LET m == InsertCall(h, 0, Head(keys), f[Head(keys)])
         IN  IF m.err # Nil THEN [nodes |-> Collect(m.nodes), err |-> m.err]
             ELSE BuildFrom(Collect(m.nodes), Tail(keys), f)

Build(keys, f) == BuildFrom(NewMerklePatriciaTrie, keys, f)

\* the numeric value of a hex digit: 0-9 to 0..9, a-f to 10..15
HexValue(ch) == IF ch <= 57 THEN ch - 48 ELSE ch - 87

\* the Extensions that hold a value, each with the concatenation of the edge
\* labels from the root down to it
RECURSIVE Below(_, _, _)
Below(h, id, prefix) ==
    IF h[id].kind = "E"
    THEN LET k == prefix \o h[id].key
         IN  (IF HasValueObject(h[id])
              THEN {[ext |-> id, key |-> k, value |-> h[id].value[1]]} ELSE {})
             \cup (IF HasNext(h[id]) THEN Below(h, h[id].next, k) ELSE {})
    ELSE UNION {Below(h, c, prefix) : c \in Referenced(h[id])}

Entries(h) == Below(h, RootId, <<>>)

StoredCorrectly(h, k, v) ==
    /\ FindCall(h, k).err = Nil
    /\ \E e \in Entries(h) :
          /\ e.key = EncodeToString(k)
          /\ e.value = v
          /\ \A d \in Entries(h) : d.key = e.key => d = e

\* C1: order-independence of Insert. While only pairs with distinct non-empty
\* keys have been inserted, every Insert has succeeded, and inserting the same
\* pairs into a fresh trie in any other order succeeds too and gives the same
\* root hash.
C1_OrderIndependence ==
    mode = "ins" =>
        /\ res = Nil
        /\ \A o \in Orderings(DOMAIN stored) :
              LET b == Build(o, stored)
              IN  b.err = Nil /\ RootHash(b.nodes) = RootHash(nodes)

\* C2: after successful Inserts of distinct keys, every inserted key is still
\* stored with the value it was inserted with: FindMerklePath finds it, and
\* exactly one Extension has edge labels from the root that spell its hex key,
\* and that Extension holds the value.
C2_InsertedKeysStored ==
    (mode = "ins" /\ res = Nil) =>
        \A k \in DOMAIN stored : StoredCorrectly(nodes, k, stored[k])

\* C3: after a successful Delete(k) the key k is no longer stored: a following
\* FindMerklePath(k) and a following Delete(k) return the not-found error, and a
\* following Insert(k, v) succeeds.
C3_DeletedKeyGone ==
    [][\A k \in Keys :
          (Delete(k, 0) /\ res' = Nil) =>
              /\ FindCall(nodes', k).err = ErrNotFound
              /\ DeleteCall(nodes', 0, k).err = ErrNotFound
              /\ \A v \in Values : InsertCall(nodes', 0, k, v).err = Nil]_vars

\* C4: delete-insert duality. After the pairs of S and T (distinct keys) were
\* inserted and keys of T deleted, the root hash is the root hash of a fresh
\* trie built by inserting the remaining pairs alone, in any order (none
\* remaining: the root hash of a newly constructed trie).
C4_DeleteInsertDuality ==
    mode = "del" =>
        \A o \in Orderings(DOMAIN stored) :
            LET b == Build(o, stored)
            IN  b.err = Nil => RootHash(b.nodes) = RootHash(nodes)

\* C5: Insert is not an upsert. Insert(k, v) on a key k that is stored returns
\* the duplicate-key error and leaves the trie as it was: the same nodes with
\* the same keys, values and cached hashes.
C5_DuplicateInsertRejected ==
    [][\A k \in DOMAIN stored : \A v \in TwoValues :
          Insert(k, v, 0) => (res' = ErrExists /\ nodes' = nodes)]_vars

\* C6: Delete(k) on a non-empty key k that is not stored returns the not-found
\* error, not a halt, and leaves the trie as it was.
C6_DeleteMissingKey ==
    [][\A k \in Keys \ {<<>>} :
          (k \notin DOMAIN stored /\ Delete(k, 0)) =>
              (res' = ErrNotFound /\ nodes' = nodes)]_vars

\* the nodes from node id down to the Extension that holds the value of the
\* hex key, following the edge labels; empty when there is none
RECURSIVE Chain(_, _, _)
Chain(h, id, key) ==
    LET n == h[id]
        match == {c \in Referenced(n) : h[c].key[1] = key[1]}
        rest == IF n.kind = "B" THEN Chain(h, CHOOSE c \in match : TRUE, key)
                ELSE Chain(h, n.next, From(key, Len(n.key)))
    IN  IF n.kind = "B"
        THEN (IF key = <<>> \/ match = {} \/ rest = <<>> THEN <<>> ELSE <<id>> \o rest)
        ELSE IF n.key = key
        THEN (IF HasValueObject(n) THEN <<id>> ELSE <<>>)
        ELSE IF Len(n.key) < Len(key) /\ SubSeq(key, 1, Len(n.key)) = n.key /\ HasNext(n)
        THEN (IF rest = <<>> THEN <<>> ELSE <<id>> \o rest)
        ELSE <<>>

\* the hex key left when the walk from the root reaches position i of chain c
RECURSIVE KeyAt(_, _, _, _)
KeyAt(h, c, key, i) ==
    IF i = 1 THEN key
    ELSE LET up == KeyAt(h, c, key, i - 1)
         IN  IF h[c[i - 1]].kind = "B" THEN up ELSE From(up, Len(h[c[i - 1]].key))

\* C7: for every stored key k, FindMerklePath(k) returns a path, leaf first,
\* with the singleton set [hash] of each Extension on the way from the
\* value-bearing Extension up to the root, a 16-entry set for each Branch on
\* that way, the root included, and the singleton [root hash] last: its length
\* is the number of these nodes plus one.
C7_PathShape ==
    \A k \in DOMAIN stored :
        LET m == FindCall(nodes, k)
            c == Chain(nodes, RootId, EncodeToString(k))
            n == Len(c)
        IN  /\ m.err = Nil
            /\ n > 0
            /\ Len(m.path) = n + 1
            /\ m.path[n + 1] = <<RootHash(nodes)>>
            /\ \A i \in 1 .. n :
                  LET node == nodes[c[n + 1 - i]]
                  IN  IF node.kind = "E" THEN m.path[i] = <<node.hash>>
                      ELSE Len(m.path[i]) = ChildIndexCount

\* C8: every Branch set of a path returned by FindMerklePath has 16 entries;
\* entry i is the cached hash of the child whose key starts with the hex digit
\* of numeric value i, null when there is no such child; and the hash of the
\* set before it stands at the position of the queried key's hex digit at that
\* depth.
C8_BranchSets ==
    \A k \in Keys :
        LET m == FindCall(nodes, k)
            c == Chain(nodes, RootId, EncodeToString(k))
            n == Len(c)
        IN  (k # <<>> /\ m.err = Nil) =>
              /\ Len(m.path) = n + 1
              /\ \A i \in 1 .. n :
                    LET b == nodes[c[n + 1 - i]]
                        digit == KeyAt(nodes, c, EncodeToString(k), n + 1 - i)[1]
                    IN  b.kind = "B" =>
                          /\ Len(m.path[i]) = ChildIndexCount
                          /\ \A d \in 0 .. ChildIndexCount - 1 :
                                LET with == {x \in Referenced(b) : HexValue(nodes[x].key[1]) = d}
                                IN  m.path[i][d + 1] =
                                      IF with = {} THEN EmptyHash
                                      ELSE nodes[CHOOSE x \in with : TRUE].hash
                          /\ i > 1
                          /\ m.path[i - 1] = <<m.path[i][HexValue(digit) + 1]>>

\* C9: FindMerklePath(k) on a non-empty key k that is not stored returns the
\* not-found error and no path, and does not halt.
C9_FindMissingKey ==
    [][\A k \in Keys \ {<<>>} :
          (k \notin DOMAIN stored /\ FindMerklePath(k)) =>
              (res' = ErrNotFound /\ path' = <<>>)]_vars

\* C10: value sensitivity. A trie built by successful Inserts of pairs with
\* distinct keys has a root hash different from that of every trie built by
\* successful Inserts of the same keys, in any order, with another value for
\* at least one key.
C10_ValueSensitivity ==
    (mode = "ins" /\ res = Nil) =>
        \A f \in [DOMAIN stored -> TwoValues] :
            f # stored =>
                \A o \in Orderings(DOMAIN stored) :
                    LET b == Build(o, f)
                    IN  b.err = Nil => RootHash(b.nodes) # RootHash(nodes)

\* the sets of non-empty keys a caller can have stored
KeySets == {S \in SUBSET (Keys \ {<<>>}) : Cardinality(S) <= MaxStored}

\* C11: the root hash commits to the key set. A trie reached by successful
\* Inserts of a set of keys, all with the same value, has a root hash different
\* from that of every trie reached by successful Inserts, in any order, of
\* another set of keys with that value (the digest is collision-free).
C11_KeySetCommitment ==
    (mode = "ins" /\ res = Nil /\ Range(stored) \subseteq Values) =>
        \A S \in KeySets :
            S # DOMAIN stored =>
                \A o \in Orderings(S) :
                    LET b == Build(o, [k \in S |-> CHOOSE v \in Values : TRUE])
                    IN  b.err = Nil => RootHash(b.nodes) # RootHash(nodes)

\* the node structure: the heap without the cached hashes
Shape(h) == [i \in DOMAIN h |-> [h[i] EXCEPT !.hash = EmptyHash]]

\* C12: an Insert or Delete in which the injected digest fails returns the
\* digest's error and leaves the trie in its prior state: the same stored
\* pairs and the same node structure as before the call (cached hashes may
\* be stale).
C12_DigestFailureAtomic ==
    [][\A key \in Keys, failAt \in 1 .. MaxFailAt :
          /\ \A value \in Values :
                (Insert(key, value, failAt) /\ res' = ErrDigest) =>
                    (Entries(nodes') = Entries(nodes) /\ Shape(nodes') = Shape(nodes))
          /\ (Delete(key, failAt) /\ res' = ErrDigest) =>
                (Entries(nodes') = Entries(nodes) /\ Shape(nodes') = Shape(nodes))]_vars

\* C13: in every reachable state Insert, Delete and FindMerklePath called
\* with the empty key return the validation error and leave the trie as it is
\* (FindMerklePath returns no path).
C13_EmptyKeyRejected ==
    /\ \A value \in TwoValues :
          LET m == InsertCall(nodes, 0, <<>>, value)
          IN  m.err = ErrEmptyKey /\ m.nodes = nodes
    /\ LET m == DeleteCall(nodes, 0, <<>>)
       IN  m.err = ErrEmptyKey /\ m.nodes = nodes
    /\ LET m == FindCall(nodes, <<>>)
       IN  m.err = ErrEmptyKey /\ m.nodes = nodes /\ m.path = <<>>

\* a call with the empty key has returned on a trie that holds two keys
C13_Witness ==
    /\ res = ErrEmptyKey
    /\ Cardinality(Entries(nodes)) >= 2

\* the hex digits 0-9 a-f
HexDigits == (48 .. 57) \cup (97 .. 102)

\* C14: dispatch by first hex digit. In every reachable state the Extension
\* in slot i of a Branch has a key whose first hex digit has the numeric value
\* i (0-9: 0..9, a-f: 10..15), and two different hex digits never map to the
\* same slot.
C14_DispatchByHexDigit ==
    /\ \A id \in DOMAIN nodes :
          nodes[id].kind = "B" =>
              \A i \in 0 .. ChildIndexCount - 1 :
                  nodes[id].children[i] # NilPtr =>
                      HexValue(nodes[nodes[id].children[i]].key[1]) = i
    /\ \A a, b \in HexDigits :
          /\ toChildIndex(a) = HexValue(a)
          /\ a # b => toChildIndex(a) # toChildIndex(b)

\* C15: in every reachable state every Branch other than the root has at
\* least two occupied child slots.
C15_BranchHasTwoChildren ==
    \A id \in DOMAIN nodes :
        (nodes[id].kind = "B" /\ id # RootId) => Count(nodes[id]) >= 2

\* C16: minimality of Extensions. In every reachable state every Extension
\* whose next is another Extension holds a value.
C16_ExtensionMinimality ==
    \A id \in DOMAIN nodes :
        (/\ nodes[id].kind = "E"
         /\ HasNext(nodes[id])
         /\ nodes[nodes[id].next].kind = "E") => HasValueObject(nodes[id])

\* Deletes have merged Extensions or collapsed a Branch, and an Extension
\* with a value is followed by an Extension
C16_Witness ==
    /\ mode = "del"
    /\ res = Nil
    /\ Cardinality(DOMAIN stored) = 2
    /\ \E id \in DOMAIN nodes :
          /\ nodes[id].kind = "E"
          /\ HasNext(nodes[id])
          /\ nodes[nodes[id].next].kind = "E"

\* C17: hash consistency. When the digest never fails, after construction and
\* after every Insert or Delete call, successful or failed, every node
\* reachable from the root has a non-empty cached hash equal to the digest of
\* its serialization, computed from its key, its value and the cached hashes
\* of its children.
C17_HashConsistency ==
    \A id \in DOMAIN nodes :
        /\ nodes[id].hash # EmptyHash
        /\ nodes[id].hash = Digest(Serialize(nodes, id))

\* a Delete has left the root with one child, below which a Branch remains
C17_Witness ==
    /\ mode = "del"
    /\ res = Nil
    /\ Count(nodes[RootId]) = 1
    /\ \E id \in DOMAIN nodes : id # RootId /\ nodes[id].kind = "B"

\* C18: no fatal halt is reachable. No Insert, Delete or FindMerklePath call
\* reaches a panic site: commonPrefix without a common prefix, SetKey with an
\* empty key, an unknown node type, a nil first child on Branch collapse, an
\* empty hash.
C18_NoFatalHalt == res # Panic

\* C19: a successful Delete(k) removes nothing but k. In every reachable
\* state, every key other than k that is stored before a Delete(k) that
\* returns success is stored after it with the same value.
C19_DeleteFrame ==
    \A k \in Keys \ {<<>>} :
        LET m == DeleteCall(nodes, 0, k)
        IN  m.err = Nil =>
                \A e \in Entries(nodes) :
                    e.key # EncodeToString(k) =>
                        \E d \in Entries(Collect(m.nodes)) :
                            d.key = e.key /\ d.value = e.value

\* successful Deletes have left one key of full length, stored in a single
\* Extension under the root
C19_Witness ==
    /\ mode = "del"
    /\ res = Nil
    /\ Len(nodes) = 2
    /\ \E k \in DOMAIN stored :
          /\ Len(k) = MaxKeyLen
          /\ \E e \in Entries(nodes) : e.key = EncodeToString(k)

\* C20: in every reachable state every Extension reachable from the root
\* holds a value or has a next node: an Extension without a next node holds a
\* value.
C20_ExtensionNotEmpty ==
    \A id \in DOMAIN nodes :
        nodes[id].kind = "E" => (HasValueObject(nodes[id]) \/ HasNext(nodes[id]))

\* after a successful Delete the trie holds an Extension without a value in
\* front of a Branch, and leaf Extensions below it
C20_Witness ==
    /\ mode = "del"
    /\ res = Nil
    /\ \E id \in DOMAIN nodes :
          /\ nodes[id].kind = "E"
          /\ ~HasValueObject(nodes[id])
          /\ HasNext(nodes[id])
    /\ \E id \in DOMAIN nodes :
          /\ nodes[id].kind = "E"
          /\ ~HasNext(nodes[id])

\* C21: every Insert, Delete and FindMerklePath call terminates. In every
\* reachable state and for every non-empty key, each recursive call from an
\* Extension into its next node passes a non-empty remainder strictly shorter
\* than the key it got, and the call makes at most twice the length of the hex
\* key recursive calls.
C21_FrameBound ==
    \A k \in Keys \ {<<>>} :
        LET bound == 2 * Len(EncodeToString(k))
            ins == InsertCall(nodes, 0, k, CHOOSE v \in Values : TRUE)
            del == DeleteCall(nodes, 0, k)
            find == FindCall(nodes, k)
        IN  /\ ins.shorter /\ ins.frames <= bound
            /\ del.shorter /\ del.frames <= bound
            /\ find.shorter /\ find.frames <= bound

\* a FindMerklePath call has returned the path of a key stored four frames
\* deep: below an Extension and a Branch under the root
C21_Witness ==
    /\ res = Nil
    /\ Len(path) = 5
    /\ \E k \in DOMAIN stored : FindCall(nodes, k).frames = 4

\* the references to node id: the Branch slots <<parent, slot>> and the next
\* fields <<parent, 0>> that hold it
Parents(h, id) ==
    {x \in (DOMAIN h) \X (0 .. ChildIndexCount - 1) :
        \/ (h[x[1]].kind = "B" /\ h[x[1]].children[x[2]] = id)
        \/ (h[x[1]].kind = "E" /\ x[2] = 0 /\ h[x[1]].next = id)}

\* the nodes reachable from node id by one to depth references
RECURSIVE Descendants(_, _, _)
Descendants(h, id, depth) ==
    IF depth = 0 THEN {}
    ELSE Referenced(h[id])
             \cup UNION {Descendants(h, c, depth - 1) : c \in Referenced(h[id])}

\* C22: the node graph is a strict tree. In every reachable state no node
\* reachable from the root is referenced by two parents (Branch slots or next
\* fields), the root by none, and no node is its own ancestor.
C22_StrictTree ==
    \A id \in DOMAIN nodes :
        /\ Cardinality(Parents(nodes, id)) = (IF id = RootId THEN 0 ELSE 1)
        /\ id \notin Descendants(nodes, id, Len(nodes))

\* after Inserts that split Extensions and a successful Delete the trie
\* holds a Branch with two children or more under an Extension
C22_Witness ==
    /\ mode = "del"
    /\ res = Nil
    /\ Len(nodes) >= 5
    /\ \E id \in DOMAIN nodes :
          /\ id # RootId
          /\ nodes[id].kind = "B"
          /\ Cardinality(Parents(nodes, id)) = 1
          /\ Count(nodes[id]) >= 2

====
